---- MODULE Spec2Model ----
(***************************************************************************)
(* A model of UbuntuImageFetcher (src/index.py).                           *)
(*                                                                         *)
(* Strings are sequences of one-character strings, so that lower(),        *)
(* split(';'), the substring test, os.path.splitext and os.path.basename   *)
(* are computed character by character as Python computes them.           *)
(* Byte strings are run-length values [fill, size]: `size' copies of the   *)
(* byte `fill'; this keeps a 50 MiB body a small value while its length    *)
(* is the real one.                                                        *)
(***************************************************************************)
EXTENDS Integers, Sequences, FiniteSets, TLC

VARIABLES
    phase,              \* "new" before __init__, "ready" after it, "failed" when __init__ raised
    dir_kind,           \* what is at self.directory: "absent", "notdir" or "dir"
    dir_listable,       \* whether os.listdir(self.directory) is permitted
    dir_files,          \* the entries of the directory: full path -> entry
    startup_files,      \* dir_files as __init__ found it
    downloaded_hashes,  \* self.downloaded_hashes
    clock,              \* int(time.time())
    calls,              \* number of fetch_image calls made so far
    last,               \* what the last fetch_image call did and returned
    retrieved,          \* the contents fully retrieved by the calls so far
    urls,               \* the argument of the running fetch_multiple_images
    i,                  \* the loop index of fetch_multiple_images (1-based, next URL)
    results,            \* the results list of fetch_multiple_images
    attempted,          \* the URLs fetch_image was called with by the running batch
    bpc,                \* "idle", "running" or "returned"
    content_type,       \* the argument of a lone _is_safe_content_type call
    safe                \* its return value ("pending" before the call)

vars == <<phase, dir_kind, dir_listable, dir_files, startup_files,
          downloaded_hashes, clock, calls, last, retrieved,
          urls, i, results, attempted, bpc, content_type, safe>>

fetcher_vars == <<phase, dir_kind, dir_listable, dir_files, startup_files,
                  downloaded_hashes, clock, calls, last, retrieved,
                  urls, i, results, attempted, bpc>>

-----------------------------------------------------------------------------
(* Bounds of the model *)

MaxCalls == 2       \* fetch_image calls in one behaviour
MaxBatch == 2       \* length of the URL list given to fetch_multiple_images
MaxClock == 1       \* seconds the clock can advance

-----------------------------------------------------------------------------
(* Python string primitives *)

\* the lower-case letter of each upper-case letter
LowerOf ==
    ("A" :> "a") @@ ("B" :> "b") @@ ("C" :> "c") @@ ("D" :> "d") @@ ("E" :> "e")
        @@ ("F" :> "f") @@ ("G" :> "g") @@ ("H" :> "h") @@ ("I" :> "i") @@ ("J" :> "j")
        @@ ("K" :> "k") @@ ("L" :> "l") @@ ("M" :> "m") @@ ("N" :> "n") @@ ("O" :> "o")
        @@ ("P" :> "p") @@ ("Q" :> "q") @@ ("R" :> "r") @@ ("S" :> "s") @@ ("T" :> "t")
        @@ ("U" :> "u") @@ ("V" :> "v") @@ ("W" :> "w") @@ ("X" :> "x") @@ ("Y" :> "y")
        @@ ("Z" :> "z")

\* the upper-case letter of each lower-case letter
UpperOf ==
    ("a" :> "A") @@ ("b" :> "B") @@ ("c" :> "C") @@ ("d" :> "D") @@ ("e" :> "E")
        @@ ("f" :> "F") @@ ("g" :> "G") @@ ("h" :> "H") @@ ("i" :> "I") @@ ("j" :> "J")
        @@ ("k" :> "K") @@ ("l" :> "L") @@ ("m" :> "M") @@ ("n" :> "N") @@ ("o" :> "O")
        @@ ("p" :> "P") @@ ("q" :> "Q") @@ ("r" :> "R") @@ ("s" :> "S") @@ ("t" :> "T")
        @@ ("u" :> "U") @@ ("v" :> "V") @@ ("w" :> "W") @@ ("x" :> "X") @@ ("y" :> "Y")
        @@ ("z" :> "Z")

\* str.lower() on one character
LowerChar(c) == IF c \in DOMAIN LowerOf THEN LowerOf[c] ELSE c

\* str.upper() on one character (used to build mixed-case inputs only)
UpperChar(c) == IF c \in DOMAIN UpperOf THEN UpperOf[c] ELSE c

\* str.lower()
RECURSIVE Lower(_)
Lower(s) == IF s = <<>> THEN <<>> ELSE <<LowerChar(Head(s))>> \o Lower(Tail(s))

RECURSIVE Upper(_)
Upper(s) == IF s = <<>> THEN <<>> ELSE <<UpperChar(Head(s))>> \o Upper(Tail(s))

\* the Python expression `sub in s'
Contains(sub, s) ==
    \E k \in 0..(Len(s) - Len(sub)) : SubSeq(s, k + 1, k + Len(sub)) = sub

\* s.split(c)[0]: the part of s before the first c
SplitFirst(s, c) ==
    IF \E k \in 1..Len(s) : s[k] = c
    THEN SubSeq(s, 1, (CHOOSE k \in 1..Len(s) :
                          s[k] = c /\ \A j \in 1..(k - 1) : s[j] # c) - 1)
    ELSE s

\* position of the last c in s, 0 when there is none
LastIndex(s, c) ==
    IF \E k \in 1..Len(s) : s[k] = c
    THEN CHOOSE k \in 1..Len(s) : s[k] = c /\ \A j \in (k + 1)..Len(s) : s[j] # c
    ELSE 0

\* str.strip() for the blank character
RECURSIVE Strip(_)
Strip(s) ==
    IF s = <<>> THEN s
    ELSE IF Head(s) = " " THEN Strip(Tail(s))
    ELSE IF s[Len(s)] = " " THEN Strip(SubSeq(s, 1, Len(s) - 1))
    ELSE s

Digits == <<"0","1","2","3","4","5","6","7","8","9">>

\* str(n) for a natural number
RECURSIVE IntToStr(_)
IntToStr(n) ==
    IF n < 10 THEN <<Digits[n + 1]>>
    ELSE Append(IntToStr(n \div 10), Digits[(n % 10) + 1])

IsDigit(c) == \E k \in 1..10 : Digits[k] = c

DigitVal(c) == (CHOOSE k \in 1..10 : Digits[k] = c) - 1

\* int(s): the value, or -1 for the ValueError Python raises
RECURSIVE StrToIntAcc(_, _)
StrToIntAcc(s, acc) ==
    IF s = <<>> THEN acc
    ELSE IF IsDigit(Head(s)) THEN StrToIntAcc(Tail(s), acc * 10 + DigitVal(Head(s)))
    ELSE -1

StrToInt(s) == IF s = <<>> THEN -1 ELSE StrToIntAcc(s, 0)

\* os.path.basename
Basename(p) == SubSeq(p, LastIndex(p, "/") + 1, Len(p))

\* os.path.splitext: the extension starts at the last dot of the last
\* component, unless that component has only leading dots before it
SplitExtAt(p, sep, dot) ==
    IF dot > sep /\ \E k \in (sep + 1)..(dot - 1) : p[k] # "."
    THEN <<SubSeq(p, 1, dot - 1), SubSeq(p, dot, Len(p))>>
    ELSE <<p, <<>> >>

SplitExt(p) == SplitExtAt(p, LastIndex(p, "/"), LastIndex(p, "."))

-----------------------------------------------------------------------------
(* _is_safe_content_type *)

image_jpeg == <<"i","m","a","g","e","/","j","p","e","g">>
image_jpg  == <<"i","m","a","g","e","/","j","p","g">>
image_png  == <<"i","m","a","g","e","/","p","n","g">>
image_gif  == <<"i","m","a","g","e","/","g","i","f">>
image_webp == <<"i","m","a","g","e","/","w","e","b","p">>
image_bmp  == <<"i","m","a","g","e","/","b","m","p">>
image_svg  == <<"i","m","a","g","e","/","s","v","g","+","x","m","l">>

safe_types == {image_jpeg, image_jpg, image_png, image_gif,
               image_webp, image_bmp, image_svg}

_is_safe_content_type(ct) ==
    \E safe_type \in safe_types : Contains(safe_type, Lower(ct))

-----------------------------------------------------------------------------
(* Byte strings and their digest *)

\* b''
EmptyBytes == [fill |-> 0, size |-> 0]

\* a chunk of n bytes, each of value fill
Bytes(fill, n) == IF n = 0 THEN EmptyBytes ELSE [fill |-> fill, size |-> n]

\* content += chunk (a body has one fill value, so the runs merge)
Concat(content, chunk) ==
    IF chunk.size = 0 THEN content
    ELSE [fill |-> chunk.fill, size |-> content.size + chunk.size]

\* hashlib.md5(content).hexdigest(): a digest that tells apart all the byte
\* strings of the model (sizes are below 2^26)
md5(content) == content.fill * 67108864 + content.size

-----------------------------------------------------------------------------
(* Filename derivation *)

\* position of the first character of s that is in cs at or after position
\* from, 0 when there is none
FirstIndexIn(s, cs, from) ==
    IF \E k \in from..Len(s) : s[k] \in cs
    THEN CHOOSE k \in from..Len(s) : s[k] \in cs /\ \A j \in from..(k - 1) : s[j] \notin cs
    ELSE 0

\* s up to, not including, position k; all of s when k = 0
Before(s, k) == IF k = 0 THEN s ELSE SubSeq(s, 1, k - 1)

\* s from position k on; nothing when k = 0
From(s, k) == IF k = 0 THEN <<>> ELSE SubSeq(s, k, Len(s))

\* urlsplit, step by step, for an absolute URL
\* "scheme://netloc/path;params?query#fragment"
AfterScheme(url) == SubSeq(url, FirstIndexIn(url, {":"}, 1) + 3, Len(url))
AfterNetloc(rest) == From(rest, FirstIndexIn(rest, {"/", "?", "#"}, 1))
WithoutQuery(tail) == Before(tail, FirstIndexIn(tail, {"?", "#"}, 1))
\* urlparse's _splitparams: the parameters start at the first ';' of the last segment
WithoutParams(path) == Before(path, FirstIndexIn(path, {";"}, LastIndex(path, "/") + 1))

\* urlparse(url).path
UrlPath(url) == WithoutParams(WithoutQuery(AfterNetloc(AfterScheme(url))))

text_html       == <<"t","e","x","t","/","h","t","m","l">>
application_pdf == <<"a","p","p","l","i","c","a","t","i","o","n","/","p","d","f">>

\* mimetypes.guess_extension(type); <<>> stands for None
guess_extension(type) ==
    LET t == Lower(type)
    IN  IF t = image_jpeg THEN <<".","j","p","g">>
        ELSE IF t = image_png THEN <<".","p","n","g">>
        ELSE IF t = image_gif THEN <<".","g","i","f">>
        ELSE IF t = image_webp THEN <<".","w","e","b","p">>
        ELSE IF t = image_bmp THEN <<".","b","m","p">>
        ELSE IF t = image_svg THEN <<".","s","v","g">>
        ELSE IF t = text_html THEN <<".","h","t","m","l">>
        ELSE IF t = application_pdf THEN <<".","p","d","f">>
        ELSE <<>>

\* extension or '.jpg'
OrJpg(extension) == IF extension # <<>> THEN extension ELSE <<".","j","p","g">>

\* _get_file_extension, given filename = os.path.basename(parsed_url.path)
ExtensionFor(filename, ct) ==
    IF Contains(<<".">>, filename) THEN SplitExt(filename)[2]
    ELSE OrJpg(guess_extension(SplitFirst(ct, ";")))

_get_file_extension(url, ct) == ExtensionFor(Basename(UrlPath(url)), ct)

\* _generate_filename, given base_name = os.path.basename(parsed_url.path)
FilenameFor(base_name, url, ct, now) ==
    (IF base_name = <<>> \/ ~Contains(<<".">>, base_name)
     THEN <<"i","m","a","g","e","_">> \o IntToStr(now)
     ELSE SplitExt(base_name)[1])
        \o _get_file_extension(url, ct)

_generate_filename(url, ct, now) == FilenameFor(Basename(UrlPath(url)), url, ct, now)

\* self.directory (the default of __init__)
directory == <<"F","e","t","c","h","e","d","_","I","m","a","g","e","s">>

\* os.path.join(self.directory, filename)
Join(filename) == directory \o <<"/">> \o filename

\* the path the k-th round of the conflict loop tries (k = 0: the original)
Suffixed(name_ext, k) == name_ext[1] \o <<"_">> \o IntToStr(k) \o name_ext[2]

Candidate(original_filepath, k) ==
    IF k = 0 THEN original_filepath ELSE Suffixed(SplitExt(original_filepath), k)

\* the conflict loop: counter runs 1, 2, ... while the path exists
RECURSIVE ResolveFrom(_, _, _)
ResolveFrom(original_filepath, k, existing) ==
    IF Candidate(original_filepath, k) \in existing
    THEN ResolveFrom(original_filepath, k + 1, existing)
    ELSE Candidate(original_filepath, k)

\* a conflict check made once (`if' in place of `while')
ResolveConflictOnce(original_filepath, existing) ==
    IF original_filepath \in existing THEN Candidate(original_filepath, 1)
    ELSE original_filepath

\* lines 150-155: the path left when the loop ends
ResolveConflict(original_filepath, existing) ==
    ResolveFrom(original_filepath, 0, existing)

-----------------------------------------------------------------------------
(* Exceptions: an exception is the set of the classes it is an instance of *)

NoExc               == {}
ReadTimeout         == {"ReadTimeout", "Timeout", "RequestException", "Exception"}
ConnectTimeout      == {"ConnectTimeout", "ConnectionError", "Timeout",
                        "RequestException", "Exception"}
ConnectionError     == {"ConnectionError", "RequestException", "Exception"}
TooManyRedirects    == {"TooManyRedirects", "RequestException", "Exception"}
HTTPError           == {"HTTPError", "RequestException", "Exception"}
ValueError          == {"ValueError", "Exception"}
OSError             == {"OSError", "Exception"}

\* the except clauses of fetch_image, in order: <<class caught, failure reported>>
except_clauses ==
    << <<"Timeout", "Timeout">>,
       <<"ConnectionError", "ConnectionFailed">>,
       <<"HTTPError", "HttpError">>,
       <<"RequestException", "NetworkError">>,
       <<"Exception", "UnexpectedError">> >>

\* a try statement without the final `except Exception' clause
HandleWithoutCatchAll(exc) ==
    LET hits == {k \in 1..4 : except_clauses[k][1] \in exc}
    IN  IF hits = {} THEN "Escaped"
        ELSE except_clauses[CHOOSE k \in hits : \A j \in hits : k <= j][2]

\* the failure kind the first matching clause reports ("Escaped": none matches)
Handle(exc) ==
    LET hits == {k \in 1..Len(except_clauses) : except_clauses[k][1] \in exc}
    IN  IF hits = {} THEN "Escaped"
        ELSE except_clauses[CHOOSE k \in hits : \A j \in hits : k <= j][2]

-----------------------------------------------------------------------------
(* The streamed read of the response body *)

max_size   == 50 * 1024 * 1024
chunk_size == 8192

\* a limit test that also rejects a body of exactly max_size bytes
ExceedsLimitInclusive(downloaded_size) == downloaded_size >= max_size

\* downloaded_size > max_size
ExceedsLimit(downloaded_size) == downloaded_size > max_size

\* the k-th chunk iter_content(chunk_size) yields for a body
ChunkOf(body, k) ==
    LET left == body.size - (k - 1) * chunk_size
    IN  Bytes(body.fill, IF left < chunk_size THEN left ELSE chunk_size)

NumChunks(body) == (body.size + chunk_size - 1) \div chunk_size

\* one round of the for loop over the chunks
ReadChunk(st, chunk) ==
    IF st.returned \/ chunk.size = 0 THEN st
    ELSE LET downloaded_size == st.downloaded_size + chunk.size
         IN  IF ExceedsLimit(downloaded_size)
             THEN [st EXCEPT !.downloaded_size = downloaded_size, !.returned = TRUE]
             ELSE [downloaded_size |-> downloaded_size,
                   content |-> Concat(st.content, chunk),
                   returned |-> FALSE]

\* the rounds lo..hi of the loop, in order; the range is halved so that the
\* evaluation of a 6401-chunk body nests 13 deep
RECURSIVE ReadChunks(_, _, _, _)
ReadChunks(body, lo, hi, st) ==
    IF lo > hi THEN st
    ELSE IF lo = hi THEN ReadChunk(st, ChunkOf(body, lo))
    ELSE LET mid  == (lo + hi) \div 2
             half == ReadChunks(body, lo, mid, st)
         IN  IF half.returned THEN half ELSE ReadChunks(body, mid + 1, hi, half)

\* the whole read loop: what it accumulated, whether it returned TooLarge, and
\* the exception iter_content raised after the last chunk it delivered
ReadBody(body) ==
    LET st == ReadChunks(body, 1, NumChunks(body),
                         [downloaded_size |-> 0, content |-> EmptyBytes, returned |-> FALSE])
    IN  [content |-> st.content, downloaded_size |-> st.downloaded_size,
         too_large |-> st.returned,
         exc |-> IF st.returned THEN NoExc ELSE body.err]

\* the response bodies of the model
BodyA     == [fill |-> 1, size |-> 3, err |-> NoExc]
BodyB     == [fill |-> 2, size |-> 3, err |-> NoExc]
BodyExact == [fill |-> 1, size |-> max_size, err |-> NoExc]
BodyOver  == [fill |-> 1, size |-> max_size + 1, err |-> NoExc]
BodyCut   == [fill |-> 3, size |-> chunk_size + 5, err |-> ConnectionError]

Bodies == {BodyA, BodyB, BodyExact, BodyOver, BodyCut}

\* the read loop of every body, evaluated once
ReadOf ==
    (BodyA :> ReadBody(BodyA)) @@ (BodyB :> ReadBody(BodyB))
        @@ (BodyExact :> ReadBody(BodyExact)) @@ (BodyOver :> ReadBody(BodyOver))
        @@ (BodyCut :> ReadBody(BodyCut))

-----------------------------------------------------------------------------
(* fetch_image *)

\* Python's None where a path or a header value is expected (no path and no
\* header value of the model is empty, and the code only tests it for truth)
None == <<>>

\* headers.get(name, default)
HeaderGet(headers, name, default) ==
    IF name \in DOMAIN headers THEN headers[name] ELSE default

\* the value fetch_image returns or the exception its body raises, with the
\* state it leaves
Outcome(tag, kind, path, exc, hashes, files, dkind, content, complete, got, ct) ==
    [tag |-> tag, kind |-> kind, success |-> (kind = "Success"), path |-> path,
     exc |-> exc, hashes |-> hashes, files |-> files, dir_kind |-> dkind,
     content |-> content, complete |-> complete, get_attempted |-> got,
     content_type |-> ct, downloaded_size |-> content.size]

\* lines 100-110: the checks on the headers of the HEAD response
CheckHead(ct0, content_length) ==
    IF ~_is_safe_content_type(ct0)
    THEN [tag |-> "return", kind |-> "UnsafeType", exc |-> NoExc, content_type |-> ct0]
    ELSE IF content_length # None /\ StrToInt(content_length) = -1
    THEN [tag |-> "raise", kind |-> "", exc |-> ValueError, content_type |-> ct0]
    ELSE IF content_length # None /\ StrToInt(content_length) > 50 * 1024 * 1024
    THEN [tag |-> "return", kind |-> "TooLarge", exc |-> NoExc, content_type |-> ct0]
    ELSE [tag |-> "go", kind |-> "", exc |-> NoExc, content_type |-> ct0]

\* a probe whose RequestException is not caught by the inner try
HeadPhasePropagating(head) ==
    IF head.exc # NoExc
    THEN [tag |-> "raise", kind |-> "", exc |-> head.exc, content_type |-> <<>>]
    ELSE CheckHead(HeaderGet(head.headers, "content-type", <<>>),
                   HeaderGet(head.headers, "content-length", None))

\* lines 97-114: the HEAD request and the checks on its headers.
\* "go": continue with the GET; "return": fetch_image returns a failure;
\* "raise": an exception leaves the inner try
HeadPhase(head) ==
    IF head.exc # NoExc
    THEN IF "RequestException" \in head.exc
         THEN [tag |-> "go", kind |-> "", exc |-> NoExc, content_type |-> image_jpeg]
         ELSE [tag |-> "raise", kind |-> "", exc |-> head.exc, content_type |-> <<>>]
    ELSE CheckHead(HeaderGet(head.headers, "content-type", <<>>),
                   HeaderGet(head.headers, "content-length", None))

\* response.raise_for_status()
raise_for_status(status) == IF status >= 400 /\ status < 600 THEN HTTPError ELSE NoExc

\* a duplicate check that never reports a duplicate
CheckDuplicateNever(content, hashes) ==
    [duplicate |-> FALSE, hashes |-> hashes \cup {md5(content)}]

\* _check_duplicate: the answer and self.downloaded_hashes afterwards
_check_duplicate(content, hashes) ==
    IF md5(content) \in hashes
    THEN [duplicate |-> TRUE, hashes |-> hashes]
    ELSE [duplicate |-> FALSE, hashes |-> hashes \cup {md5(content)}]

\* a directory entry
RegularFile(content, readable) == [kind |-> "file", readable |-> readable, content |-> content]
Subdirectory == [kind |-> "subdir", readable |-> TRUE, content |-> EmptyBytes]

\* f with the entry e at path p (added or replaced)
WithFile(files, p, e) ==
    [q \in DOMAIN files \cup {p} |-> IF q = p THEN e ELSE files[q]]

\* a save that writes at the derived path whether or not it exists
SavePathOverwriting(url, ct, now, files) == Join(_generate_filename(url, ct, now))

\* lines 146-155: the path the image is saved at
SavePath(url, ct, now, files) ==
    ResolveConflict(Join(_generate_filename(url, ct, now)), DOMAIN files)

\* lines 142-162, once the content is known to be new: makedirs, naming,
\* write. fault names the step the filesystem refuses in this call: "none",
\* "makedirs", "open" (no file is created) or "write" (the file is created,
\* nothing reaches it)
Save(filepath, ct, content, fault, hashes, files, dkind) ==
    IF dkind = "notdir" \/ (dkind = "absent" /\ fault = "makedirs")
    THEN Outcome("raise", "", None, OSError, hashes, files, dkind,
                 content, TRUE, TRUE, ct)
    ELSE IF fault = "open"
    THEN Outcome("raise", "", None, OSError, hashes, files, "dir",
                 content, TRUE, TRUE, ct)
    ELSE IF fault = "write"
    THEN Outcome("raise", "", None, OSError, hashes,
                 WithFile(files, filepath, RegularFile(EmptyBytes, TRUE)), "dir",
                 content, TRUE, TRUE, ct)
    ELSE Outcome("return", "Success", filepath, NoExc, hashes,
                 WithFile(files, filepath, RegularFile(content, TRUE)), "dir",
                 content, TRUE, TRUE, ct)

\* lines 138-162, given dup = self._check_duplicate(content)
PersistChecked(dup, url, ct, content, fault, files, dkind, now) ==
    IF dup.duplicate
    THEN Outcome("return", "DuplicateContent", None, NoExc, dup.hashes, files, dkind,
                 content, TRUE, TRUE, ct)
    ELSE Save(SavePath(url, ct, now, files), ct, content, fault, dup.hashes, files, dkind)

\* lines 138-162: duplicate check, makedirs, naming, write
Persist(url, ct, content, fault, hashes, files, dkind, now) ==
    PersistChecked(_check_duplicate(content, hashes), url, ct, content, fault,
                   files, dkind, now)

\* lines 118-162, given actual_content_type and the outcome of the read loop
AfterGet(actual_content_type, read, url, get, fault, hashes, files, dkind, now) ==
    IF get.exc # NoExc
    THEN Outcome("raise", "", None, get.exc, hashes, files, dkind,
                 EmptyBytes, FALSE, TRUE, actual_content_type)
    ELSE IF raise_for_status(get.status) # NoExc
    THEN Outcome("raise", "", None, raise_for_status(get.status), hashes, files, dkind,
                 EmptyBytes, FALSE, TRUE, actual_content_type)
    ELSE IF ~_is_safe_content_type(actual_content_type)
    THEN Outcome("return", "UnsafeType", None, NoExc, hashes, files, dkind,
                 EmptyBytes, FALSE, TRUE, actual_content_type)
    ELSE IF read.too_large
    THEN [Outcome("return", "TooLarge", None, NoExc, hashes, files, dkind,
                  EmptyBytes, FALSE, TRUE, actual_content_type)
            EXCEPT !.downloaded_size = read.downloaded_size]
    ELSE IF read.exc # NoExc
    THEN [Outcome("raise", "", None, read.exc, hashes, files, dkind,
                  EmptyBytes, FALSE, TRUE, actual_content_type)
            EXCEPT !.downloaded_size = read.downloaded_size]
    ELSE Persist(url, actual_content_type, read.content, fault, hashes, files, dkind, now)

\* lines 117-162: the GET request and everything after it
GetPhase(url, ct0, get, fault, hashes, files, dkind, now) ==
    AfterGet(HeaderGet(get.headers, "content-type", ct0), ReadOf[get.body],
             url, get, fault, hashes, files, dkind, now)

\* lines 96-162, given the outcome of the probe
AfterHead(probe, url, get, fault, hashes, files, dkind, now) ==
    IF probe.tag = "go"
    THEN GetPhase(url, probe.content_type, get, fault, hashes, files, dkind, now)
    ELSE Outcome(probe.tag, probe.kind, None, probe.exc, hashes, files, dkind,
                 EmptyBytes, FALSE, FALSE, probe.content_type)

\* the body of the outer try
TryBody(url, head, get, fault, hashes, files, dkind, now) ==
    AfterHead(HeadPhase(head), url, get, fault, hashes, files, dkind, now)

\* lines 164-173: the except clauses, applied to what the body did
Catch(body) ==
    IF body.tag = "return" THEN body
    ELSE [body EXCEPT !.tag = IF Handle(body.exc) = "Escaped" THEN "raise" ELSE "return",
                      !.kind = Handle(body.exc)]

\* fetch_image: the body, then the except clauses
fetch_image(url, head, get, fault, hashes, files, dkind, now) ==
    Catch(TryBody(url, head, get, fault, hashes, files, dkind, now))

-----------------------------------------------------------------------------
(* The inputs: URLs, responses of the server, faults of the filesystem *)

url_x_t_png   == <<"h","t","t","p",":","/","/","x","/","t",".","p","n","g">>
url_y_t_png   == <<"h","t","t","p",":","/","/","y","/","a","/","t",".","p","n","g","?","v","=","2">>
url_x_pic     == <<"h","t","t","p",":","/","/","x","/","p","i","c">>
url_padded    == <<" ","h","t","t","p",":","/","/","x","/","t",".","p","n","g"," ">>

\* what the user types at the prompt of main(), already stripped
TypedUrls == {url_x_t_png, url_y_t_png, url_x_pic}

\* what a caller may put in the list given to fetch_multiple_images
ListedUrls == {url_padded, url_y_t_png}

NoHeaders == <<>>
ContentType(ct) == "content-type" :> ct
ContentLength(n) == "content-length" :> n

len_exact == <<"5","2","4","2","8","8","0","0">>
len_over  == <<"5","2","4","2","8","8","0","1">>
len_junk  == <<"a","b","c">>
IMAGE_JPEG_param == <<"I","M","A","G","E","/","J","P","E","G",";"," ","q","=","1">>

HeadRaises(exc) == [exc |-> exc, headers |-> NoHeaders]
HeadReturns(headers) == [exc |-> NoExc, headers |-> headers]

\* the outcomes of session.head
Heads ==
    { HeadRaises(ConnectTimeout), HeadRaises(TooManyRedirects),
      HeadReturns(ContentType(image_png) @@ ContentLength(len_exact)),
      HeadReturns(ContentType(image_png) @@ ContentLength(len_over)),
      HeadReturns(ContentType(application_pdf) @@ ContentLength(len_over)),
      HeadReturns(ContentType(IMAGE_JPEG_param) @@ ContentLength(len_junk)),
      HeadReturns(NoHeaders) }

GetRaises(exc) == [exc |-> exc, status |-> 0, headers |-> NoHeaders, body |-> BodyA]
GetReturns(status, headers, body) ==
    [exc |-> NoExc, status |-> status, headers |-> headers, body |-> body]

\* the outcomes of session.get and of reading its body
Gets ==
    { GetRaises(ReadTimeout),
      GetReturns(404, ContentType(text_html), BodyA),
      GetReturns(200, ContentType(image_png), BodyA),
      GetReturns(200, ContentType(image_gif), BodyB),
      GetReturns(200, NoHeaders, BodyExact),
      GetReturns(200, ContentType(application_pdf), BodyA),
      GetReturns(200, ContentType(image_png), BodyOver),
      GetReturns(200, ContentType(image_png), BodyCut) }

Faults == {"none", "makedirs", "open", "write"}

\* the filesystem faults to draw from, given what the attempt does when the
\* filesystem refuses nothing: none when it stops before the duplicate check
FaultsAfter(dry) == IF dry.complete THEN Faults ELSE {"none"}

\* the GET outcomes to draw from: the request is made only when the probe
\* lets the attempt go on
GetsAfter(head) == IF HeadPhase(head).tag = "go" THEN Gets ELSE {GetRaises(ReadTimeout)}

-----------------------------------------------------------------------------
(* The output directory before the program starts *)

path_t_png   == Join(<<"t",".","p","n","g">>)
path_t_1_png == Join(<<"t","_","1",".","p","n","g">>)
path_u_png   == Join(<<"u",".","p","n","g">>)
path_sub     == Join(<<"s","u","b">>)

OldBytes == Bytes(4, 7)

NoFiles == <<>>

Disk(kind, listable, files) == [kind |-> kind, listable |-> listable, files |-> files]

InitialDisks ==
    { Disk("absent", TRUE, NoFiles),
      Disk("notdir", TRUE, NoFiles),
      Disk("dir", TRUE, NoFiles),
      Disk("dir", FALSE, path_u_png :> RegularFile(Bytes(1, 3), TRUE)),
      Disk("dir", TRUE, (path_u_png :> RegularFile(Bytes(1, 3), TRUE))
                          @@ (path_t_png :> RegularFile(Bytes(2, 3), FALSE))
                          @@ (path_sub :> Subdirectory)),
      Disk("dir", TRUE, (path_t_png :> RegularFile(OldBytes, TRUE))
                          @@ (path_t_1_png :> RegularFile(OldBytes, FALSE))) }

-----------------------------------------------------------------------------
(* __init__ and _load_existing_hashes *)

\* the scan: whether it raised, and the hashes it collected
_load_existing_hashes(dkind, listable, files) ==
    IF dkind = "absent" THEN [raised |-> FALSE, hashes |-> {}]
    ELSE IF dkind = "notdir" \/ ~listable THEN [raised |-> TRUE, hashes |-> {}]
    ELSE [raised |-> FALSE,
          hashes |-> {md5(files[q].content) :
                        q \in {r \in DOMAIN files :
                                 files[r].kind = "file" /\ files[r].readable}}]

-----------------------------------------------------------------------------
(* The state machine *)

\* f"{file_size:.1f}" for file_size = n / 1024, in tenths of a KB
\* (the nearest tenth, a tie going to the even one)
SizeShown(n) ==
    LET q == (n * 10) \div 1024
        r == (n * 10) % 1024
    IN  IF r > 512 \/ (r = 512 /\ q % 2 = 1) THEN q + 1 ELSE q

NoCall ==
    [kind |-> "", success |-> FALSE, path |-> None, escaped |-> FALSE,
     exc |-> NoExc, probe_exc |-> NoExc, declared |-> -1, get_attempted |-> FALSE,
     get_typed |-> FALSE, downloaded_size |-> 0,
     content |-> EmptyBytes, complete |-> FALSE, content_type |-> <<>>,
     original_filepath |-> None, shown |-> 0]

\* the length the probe declared: int(content_length), -1 when the probe
\* failed, declared none or declared something that is no number
Declared(head) ==
    IF head.exc = NoExc THEN StrToInt(HeaderGet(head.headers, "content-length", None))
    ELSE -1

\* what a fetch_image call leaves to observe: what it returned (kind, success,
\* path; shown: the size in its message), whether an exception left it
\* (escaped), and the values its local variables had
Observed(url, head, get, r, now) ==
    [kind |-> r.kind, success |-> r.success, path |-> r.path,
     escaped |-> (r.tag = "raise"),
     exc |-> r.exc, probe_exc |-> head.exc, declared |-> Declared(head),
     get_attempted |-> r.get_attempted,
     get_typed |-> (r.get_attempted /\ get.exc = NoExc
                      /\ "content-type" \in DOMAIN get.headers),
     downloaded_size |-> r.downloaded_size,
     content |-> r.content, complete |-> r.complete, content_type |-> r.content_type,
     original_filepath |-> IF r.success
                           THEN Join(_generate_filename(url, r.content_type, now))
                           ELSE None,
     shown |-> IF r.success THEN SizeShown(r.content.size) ELSE 0]

Init ==
    /\ phase = "new"
    /\ \E d \in InitialDisks :
          /\ dir_kind = d.kind
          /\ dir_listable = d.listable
          /\ dir_files = d.files
          /\ startup_files = d.files
    /\ downloaded_hashes = {}
    /\ clock = 0
    /\ calls = 0
    /\ last = NoCall
    /\ retrieved = {}
    /\ urls = <<>>
    /\ i = 1
    /\ results = <<>>
    /\ attempted = <<>>
    /\ bpc = "idle"
    /\ content_type = <<>>
    /\ safe = "unused"

\* fetcher = UbuntuImageFetcher()
Construct ==
    /\ phase = "new"
    /\ LET scan == _load_existing_hashes(dir_kind, dir_listable, dir_files)
       IN  /\ phase' = IF scan.raised THEN "failed" ELSE "ready"
           /\ downloaded_hashes' = scan.hashes
    /\ UNCHANGED <<dir_kind, dir_listable, dir_files, startup_files, clock, calls,
                   last, retrieved, urls, i, results, attempted, bpc, content_type, safe>>

\* time passes
Tick ==
    /\ clock < MaxClock
    /\ clock' = clock + 1
    /\ UNCHANGED <<phase, dir_kind, dir_listable, dir_files, startup_files,
                   downloaded_hashes, calls, last, retrieved,
                   urls, i, results, attempted, bpc, content_type, safe>>

\* one call fetch_image(url): the server and the filesystem answer, the
\* fetcher and the directory change, the call is recorded in last
Call(url) ==
    /\ phase = "ready"
    /\ calls < MaxCalls
    /\ \E head \in Heads : \E get \in GetsAfter(head) :
         \E fault \in FaultsAfter(TryBody(url, head, get, "none", downloaded_hashes,
                                          dir_files, dir_kind, clock)) :
            \E r \in {fetch_image(url, head, get, fault, downloaded_hashes,
                                  dir_files, dir_kind, clock)} :
                   /\ downloaded_hashes' = r.hashes
                   /\ dir_files' = r.files
                   /\ dir_kind' = r.dir_kind
                   /\ last' = Observed(url, head, get, r, clock)
                   /\ retrieved' = IF r.complete THEN retrieved \cup {r.content}
                                   ELSE retrieved
    /\ calls' = calls + 1
    /\ UNCHANGED <<phase, dir_listable, startup_files, clock, content_type, safe>>

\* main(), choice 1: fetcher.fetch_image(url)
FetchSingle ==
    /\ bpc = "idle"
    /\ \E url \in TypedUrls : Call(url)
    /\ UNCHANGED <<urls, i, results, attempted, bpc>>

\* fetcher.fetch_multiple_images(urls) is entered
StartBatch ==
    /\ phase = "ready"
    /\ bpc = "idle"
    /\ \E n \in 0..MaxBatch : \E us \in [1..n -> ListedUrls] :
          /\ calls + n <= MaxCalls
          /\ urls' = us
    /\ i' = 1
    /\ results' = <<>>
    /\ attempted' = <<>>
    /\ bpc' = "running"
    /\ UNCHANGED <<phase, dir_kind, dir_listable, dir_files, startup_files,
                   downloaded_hashes, clock, calls, last, retrieved, content_type, safe>>

\* a loop that stops at the first failure
NextIndexStopping(k, success, n) == IF success THEN k + 1 ELSE n + 1

\* the index the for loop goes on with after the round for index k
NextIndex(k, success, n) == k + 1

\* one round of the for loop of fetch_multiple_images
BatchStep ==
    /\ bpc = "running"
    /\ i <= Len(urls)
    /\ Call(Strip(urls[i]))
    /\ results' = Append(results, <<urls[i], last'.success, last'.kind, last'.path>>)
    /\ attempted' = Append(attempted, Strip(urls[i]))
    /\ i' = NextIndex(i, last'.success, Len(urls))
    /\ UNCHANGED <<urls, bpc>>

\* return results
BatchReturn ==
    /\ bpc = "running"
    /\ i > Len(urls)
    /\ bpc' = "returned"
    /\ UNCHANGED <<phase, dir_kind, dir_listable, dir_files, startup_files,
                   downloaded_hashes, clock, calls, last, retrieved,
                   urls, i, results, attempted, content_type, safe>>

Next == Construct \/ Tick \/ FetchSingle \/ StartBatch \/ BatchStep \/ BatchReturn

Spec == Init /\ [][Next]_vars

-----------------------------------------------------------------------------
(* _is_safe_content_type on its own *)

image_tiff == <<"i","m","a","g","e","/","t","i","f","f">>

\* media types: the allow-list, other types, and pieces of allow-listed types
TypeInputs ==
    safe_types \cup {text_html, application_pdf, image_tiff, <<>>,
                     <<"i","m","a","g","e","/">>, <<"i","m","a","g","e","/","p","n">>}

\* what may precede the media type in the string
PrefixInputs == {<<>>, <<"x">>, <<"a","p","p","l","i","c","a","t","i","o","n","/">>}

\* what may follow it: nothing, parameters, more characters of the type
SuffixInputs ==
    {<<>>, <<";"," ","c","h","a","r","s","e","t","=","u","t","f","-","8">>, <<";","q","=","i","m","a","g","e","/","p","n","g">>, <<"2">>}

ContentTypeInputs ==
    UNION { {pre \o ty \o suf, Upper(pre \o ty \o suf)} :
              <<pre, ty, suf>> \in PrefixInputs \X TypeInputs \X SuffixInputs }

InitValidate ==
    /\ phase = "new"
    /\ dir_kind = "absent"
    /\ dir_listable = TRUE
    /\ dir_files = NoFiles
    /\ startup_files = NoFiles
    /\ downloaded_hashes = {}
    /\ clock = 0
    /\ calls = 0
    /\ last = NoCall
    /\ retrieved = {}
    /\ urls = <<>>
    /\ i = 1
    /\ results = <<>>
    /\ attempted = <<>>
    /\ bpc = "idle"
    /\ content_type \in ContentTypeInputs
    /\ safe = "pending"

\* safe = self._is_safe_content_type(content_type)
Validate ==
    /\ safe = "pending"
    /\ safe' = IF _is_safe_content_type(content_type) THEN "True" ELSE "False"
    /\ UNCHANGED <<fetcher_vars, content_type>>

NextValidate == Validate

SpecValidate == InitValidate /\ [][NextValidate]_vars

-----------------------------------------------------------------------------
(* Properties *)

\* a step that is one fetch_image call
IsCall == calls' = calls + 1

\* the media type of a content-type string: lower-cased, parameters stripped
MediaType(ct) == SplitFirst(Lower(ct), ";")

\* the contents of the readable regular files of a directory listing
ReadableContents(files) ==
    {files[q].content : q \in {r \in DOMAIN files :
                                 files[r].kind = "file" /\ files[r].readable}}

\* the hashes of the readable regular files of a directory listing
ReadableHashes(files) == {md5(c) : c \in ReadableContents(files)}

\* the paths written in this run
SavedPaths == DOMAIN dir_files \ DOMAIN startup_files

\* C1: _is_safe_content_type returns true exactly when the media type of the
\* string (lower-cased, parameters stripped) is one of the seven allow-listed
\* types, and false for every other string.
C1_ExactMatch ==
    safe # "pending" => (safe = "True" <=> MediaType(content_type) \in safe_types)

\* C2: a call whose fully retrieved bytes equal those of an earlier call, or
\* those of a readable file found at startup, is reported as DuplicateContent,
\* writes no file and leaves the registry unchanged.
C2_SecondIsDuplicate ==
    [][ (IsCall /\ last'.complete
           /\ last'.content \in retrieved \cup ReadableContents(startup_files))
        => (/\ last'.kind = "DuplicateContent"
            /\ ~last'.success
            /\ dir_files' = dir_files
            /\ dir_kind' = dir_kind
            /\ downloaded_hashes' = downloaded_hashes) ]_vars

\* the second call of a run retrieved the bytes the first one saved
C2_Witness ==
    /\ calls = 2
    /\ last.kind = "DuplicateContent"
    /\ last.content \notin ReadableContents(startup_files)
    /\ \E q \in SavedPaths : dir_files[q].content = last.content

\* C3: a call that returns success has created exactly one new file, in the
\* output directory, at the returned path, holding exactly the retrieved bytes;
\* the size in the message is that size (rounded to a tenth of a KB); the hash
\* of the bytes is in the registry; no file that existed is changed.
C3_SuccessWritesOneFile ==
    [][ (IsCall /\ last'.success)
        => (/\ last'.path # None
            /\ last'.path \notin DOMAIN dir_files
            /\ DOMAIN dir_files' = DOMAIN dir_files \cup {last'.path}
            /\ last'.path = Join(Basename(last'.path))
            /\ dir_kind' = "dir"
            /\ dir_files'[last'.path] = RegularFile(last'.content, TRUE)
            /\ last'.complete
            /\ last'.shown * 1024 - dir_files'[last'.path].content.size * 10 \in -512..512
            /\ md5(last'.content) \in downloaded_hashes'
            /\ \A q \in DOMAIN dir_files : dir_files'[q] = dir_files[q]) ]_vars

\* a success in a directory that already held a file of the derived name
C3_Witness ==
    /\ last.success
    /\ last.path \in DOMAIN dir_files
    /\ last.original_filepath \in DOMAIN startup_files
    /\ dir_files[last.path].content = last.content

\* whether a call changed the registry or the output directory
NoEffect ==
    /\ dir_files' = dir_files
    /\ dir_kind' = dir_kind
    /\ downloaded_hashes' = downloaded_hashes

\* C4 as claimed: when the streamed bytes exceed 50 MiB at some chunk, or the
\* probe declares a length above 50 MiB, the call ends with TooLarge, creates
\* no file and records no hash; a body of exactly 50 MiB is not rejected.
C4_Original ==
    [][ IsCall =>
          /\ (last'.downloaded_size > max_size \/ last'.declared > max_size)
                => (last'.kind = "TooLarge" /\ NoEffect)
          /\ (last'.downloaded_size = max_size /\ last'.declared <= max_size)
                => last'.kind # "TooLarge" ]_vars

\* C4, amended: the probe's declared length counts only when the probe's
\* content type passed _is_safe_content_type (otherwise the call has already
\* ended with UnsafeType, also without effect).
C4_TooLarge ==
    [][ IsCall =>
          /\ (\/ last'.downloaded_size > max_size
              \/ (last'.declared > max_size /\ _is_safe_content_type(last'.content_type)))
                => (last'.kind = "TooLarge" /\ NoEffect)
          /\ (last'.declared > max_size /\ ~_is_safe_content_type(last'.content_type))
                => (last'.kind = "UnsafeType" /\ NoEffect)
          /\ (last'.downloaded_size = max_size /\ last'.declared <= max_size)
                => last'.kind # "TooLarge" ]_vars

\* a stream that went over the limit was rejected
C4_Witness ==
    /\ last.kind = "TooLarge"
    /\ last.downloaded_size > max_size
    /\ last.get_attempted

\* the path is the first free one of original, original_1, original_2, ...
FirstFree(path, original, existing) ==
    \E k \in 0..Cardinality(existing) :
        /\ path = Candidate(original, k)
        /\ path \notin existing
        /\ \A j \in 0..(k - 1) : Candidate(original, j) \in existing

\* two calls in a row that both saved a file under the same derived name
SameNameTwice ==
    /\ IsCall
    /\ last.success
    /\ last'.success
    /\ last'.original_filepath = last.original_filepath

\* C5 as claimed: the file is written at the first non-existing path among
\* the derived one and name_1.ext, name_2.ext, ...; after two fetches that
\* derive the same filename both files exist under distinct names, the first
\* unchanged, and the second carries the _1 suffix.
C5_Original ==
    [][ /\ (IsCall /\ last'.success)
            => FirstFree(last'.path, last'.original_filepath, DOMAIN dir_files)
        /\ SameNameTwice
            => (/\ last'.path # last.path
                /\ {last.path, last'.path} \subseteq DOMAIN dir_files'
                /\ dir_files'[last.path] = dir_files[last.path]
                /\ last'.path = Candidate(last.original_filepath, 1)) ]_vars

\* C5, amended: the second file carries the first free suffix; that is _1
\* when the first file was written at the derived path itself and name_1.ext
\* did not exist.
C5_NoOverwrite ==
    [][ /\ (IsCall /\ last'.success)
            => FirstFree(last'.path, last'.original_filepath, DOMAIN dir_files)
        /\ SameNameTwice
            => (/\ last'.path # last.path
                /\ {last.path, last'.path} \subseteq DOMAIN dir_files'
                /\ dir_files'[last.path] = dir_files[last.path]
                /\ (/\ last.path = last.original_filepath
                    /\ Candidate(last.original_filepath, 1) \notin DOMAIN dir_files)
                      => last'.path = Candidate(last.original_filepath, 1)) ]_vars

\* two files saved in this run under the same derived name, the second as _1
C5_Witness ==
    /\ calls = 2
    /\ last.success
    /\ last.path = Candidate(last.original_filepath, 1)
    /\ {last.original_filepath, last.path} \subseteq SavedPaths
    /\ dir_files[last.original_filepath].content # dir_files[last.path].content

\* C6: fetch_multiple_images returns one result per URL, in input order, each
\* carrying its URL, having attempted every URL once, in order, whatever the
\* earlier attempts returned.
C6_OneResultPerUrl ==
    /\ bpc = "running"
        => (/\ i <= Len(urls) + 1
            /\ Len(results) = i - 1
            /\ Len(attempted) = i - 1)
    /\ bpc = "returned"
        => (/\ Len(results) = Len(urls)
            /\ Len(attempted) = Len(urls))
    /\ \A k \in 1..Len(results) :
          /\ k <= Len(urls)
          /\ results[k][1] = urls[k]
          /\ attempted[k] = Strip(urls[k])

\* a batch of two returned although its first URL failed
C6_Witness ==
    /\ bpc = "returned"
    /\ Len(urls) = 2
    /\ Len(results) = 2
    /\ ~results[1][2]
    /\ results[2][2]

FailureKinds ==
    {"UnsafeType", "TooLarge", "Timeout", "ConnectionFailed", "HttpError",
     "NetworkError", "DuplicateContent", "UnexpectedError"}

\* C7: no exception leaves fetch_image; a failure of any kind is returned as
\* (False, message, None), and the path is non-null exactly on success.
C7_NothingEscapes ==
    calls > 0
        => (/\ ~last.escaped
            /\ (last.path # None) <=> last.success
            /\ last.success => last.kind = "Success"
            /\ ~last.success => (last.kind \in FailureKinds /\ last.path = None)
            /\ last.exc # NoExc => ~last.success)

\* a refusal of the filesystem was returned as UnexpectedError
C7_Witness ==
    /\ calls > 0
    /\ last.exc = OSError
    /\ last.kind = "UnexpectedError"
    /\ ~last.success
    /\ last.path = None

\* C8: __init__ does not fail because of the scan, whatever is at the output
\* path, and afterwards the registry is the set of the hashes of the readable
\* regular files of the directory.
C8_ScanNeverFails ==
    /\ phase # "failed"
    /\ (phase = "ready" /\ calls = 0)
          => downloaded_hashes = ReadableHashes(startup_files)

\* C9: the registry is the startup hashes plus the hashes of the files saved
\* in this run; a call that returns a failure leaves the registry, the
\* existence of the directory and its files unchanged.
C9_FailureHasNoEffect ==
    [][ /\ (IsCall /\ ~last'.success) => NoEffect
        /\ phase' = "ready"
              => downloaded_hashes' =
                    ReadableHashes(startup_files)
                        \cup {md5(dir_files'[q].content) :
                                q \in DOMAIN dir_files' \ DOMAIN startup_files} ]_vars

\* C10: when the probe raises, the GET is still made, with image/jpeg as the
\* content type unless the response names one, and the full fetch decides:
\* a timeout of the GET gives Timeout, a complete read of new content that the
\* filesystem accepts gives success.
C10_ProbeFailureGoesOn ==
    [][ (IsCall /\ last'.probe_exc # NoExc)
        => (/\ last'.get_attempted
            /\ ~last'.get_typed => last'.content_type = image_jpeg
            /\ "Timeout" \in last'.exc => last'.kind = "Timeout"
            /\ last'.kind = "UnsafeType" => last'.get_typed
            /\ last'.kind = "TooLarge" => last'.downloaded_size > max_size
            /\ (/\ last'.complete
                /\ md5(last'.content) \notin downloaded_hashes
                /\ last'.exc = NoExc)
                  => last'.success) ]_vars

\* the probe and the GET both timed out
C10_Witness ==
    /\ calls > 0
    /\ "Timeout" \in last.probe_exc
    /\ last.get_attempted
    /\ "Timeout" \in last.exc
    /\ last.kind = "Timeout"

====
